---- MODULE Spec2Model ----
(***************************************************************************)
(* The MARC binary reader of marcli: MarcFile.ReadAll and the decoders it  *)
(* drives (src/marcfile.go), and MakeField (src/field.go).                 *)
(*                                                                         *)
(* Bytes are naturals 0..255, strings and byte slices are sequences of     *)
(* bytes.  The file cursor pos counts the bytes before it, so the next     *)
(* byte read is stream[pos + 1].                                           *)
(***************************************************************************)
EXTENDS Integers, Sequences, FiniteSets, TLC

VARIABLES
    input,      \* how the bytes of the file were laid out (never read by the reader)
    stream,     \* the bytes of the opened file
    pos,        \* file.f's cursor
    records,    \* MarcFile.records
    pc,         \* where ReadAll stands
    leader,     \* readRecord's local leader
    dirOffset,  \* readDirectory's local offset
    directory,  \* readRecord's local directory
    values,     \* readRecord's local values
    delivered,  \* the calls processor.Process has received, in order
    result,     \* how ReadAll ended: "none", "nil", "error" or "panic"
    failure,    \* the error returned or the value panicked with
    closed,     \* file.f.Close() was called
    footer,     \* processor.Footer() was called
    mfTag,      \* MakeField's argument tag
    mfData,     \* MakeField's argument data
    mfDone,     \* MakeField has returned
    mfOut       \* what MakeField returned

readerVars == <<input, stream, pos, records, pc, leader, dirOffset, directory,
                values, delivered, result, failure, closed, footer>>
fieldVars == <<mfTag, mfData, mfDone, mfOut>>
vars == <<readerVars, fieldVars>>

----------------------------------------------------------------------------
(* Bounds of the model *)

MaxRecords == 2
MaxEntries == 2
MaxFieldLen == 2
MaxDataLen == 7

----------------------------------------------------------------------------
(* Constants of the format and of the program *)

LeaderLen == 24
DirEntryLen == 12
RecordSeparator == 30
EndOfRecord == 29
st == 31
defaultBufSize == 4096

Min(a, b) == IF a < b THEN a ELSE b

IsDigit(b) == b \in 48..57

RECURSIVE Sum(_)
Sum(s) == IF s = <<>> THEN 0 ELSE Head(s) + Sum(Tail(s))

RECURSIVE Pow10(_)
Pow10(n) == IF n = 0 THEN 1 ELSE 10 * Pow10(n - 1)

----------------------------------------------------------------------------
(* The file: os.File.Read on a regular file *)

\* f.Read(buffer) with len(buffer) = n and the cursor at p: the buffer starts
\* zeroed, k bytes are copied, io.EOF is reported only when nothing was read
\* and something was asked for.
FileRead(s, p, n) ==
    LET k == Min(n, Len(s) - p) IN
    [n     |-> k,
     eof   |-> (k = 0 /\ n > 0),
     bytes |-> [i \in 1..n |-> IF i <= k THEN s[p + i] ELSE 0]]

\* Where the cursor of the file stands after bufio has filled its buffer
\* often enough to hold len bytes from offset (or has met the end).
AfterFill(s, offset, len) ==
    Min(Len(s), offset + defaultBufSize * ((len + defaultBufSize - 1) \div defaultBufSize))

----------------------------------------------------------------------------
(* The decoders *)

\* strconv.Atoi on a fixed-width field of decimal digits.
RECURSIVE DecVal(_)
DecVal(ds) ==
    IF ds = <<>> THEN 0
    ELSE (Head(ds) - 48) * Pow10(Len(ds) - 1) + DecVal(Tail(ds))

AllDigits(ds) == \A i \in 1..Len(ds) : IsDigit(ds[i])

\* NewLeader(string(bytes)): the record length is value[0:5], the base address
\* of data value[12:17]; a leader whose numeric parts are not digits is refused.
NewLeader(value) ==
    LET len == SubSeq(value, 1, 5)
        off == SubSeq(value, 13, 17) IN
    IF Len(value) = LeaderLen /\ AllDigits(len) /\ AllDigits(off)
    THEN [ok |-> TRUE,
          leader |-> [raw |-> value, Length |-> DecVal(len), dataOffset |-> DecVal(off)]]
    ELSE [ok |-> FALSE, leader |-> [raw |-> <<>>, Length |-> 0, dataOffset |-> 0]]

\* NewDirEntry(entry): 3 bytes of tag, 4 digits of length, 5 digits of offset.
NewDirEntry(entry) ==
    LET len == SubSeq(entry, 4, 7)
        off == SubSeq(entry, 8, 12) IN
    IF AllDigits(len) /\ AllDigits(off)
    THEN [ok |-> TRUE,
          entry |-> [Tag |-> SubSeq(entry, 1, 3), Length |-> DecVal(len), StartsAt |-> DecVal(off)]]
    ELSE [ok |-> FALSE, entry |-> [Tag |-> <<>>, Length |-> 0, StartsAt |-> 0]]

\* NewValue(entry.Tag, value): the field of a record, tagged.
NewValue(tag, value) == [Tag |-> tag, Raw |-> value]

RECURSIVE IndexFrom(_, _, _)
IndexFrom(s, i, delim) ==
    IF i > Len(s) THEN 0
    ELSE IF s[i] = delim THEN i
    ELSE IndexFrom(s, i + 1, delim)

\* reader.ReadString(delim) of a bufio.Reader opened on the file at cursor p:
\* the bytes up to and including the first delim, or what is left and io.EOF.
\* ahead is where the buffered reads leave the cursor of the file.
ReadString(s, p, delim) ==
    LET at == IndexFrom(s, p + 1, delim) IN
    IF at = 0
    THEN [found |-> FALSE, ss |-> SubSeq(s, p + 1, Len(s)), ahead |-> Len(s)]
    ELSE [found |-> TRUE, ss |-> SubSeq(s, p + 1, at),
          ahead |-> AfterFill(s, p, at - p)]

\* count := (len(ss) - 1) / 12
EntryCount(ss) == (Len(ss) - 1) \div DirEntryLen

\* The cursor when the seek after the buffered read is left out.
CursorLeftByReader(offset, ss, ahead) == ahead

\* file.f.Seek(offset+int64(len(ss)), 0)
CursorAfterDirectory(offset, ss, ahead) == offset + Len(ss)

\* readDirectory with the cursor at p.
readDirectory(s, p) ==
    LET offset  == p
        r       == ReadString(s, p, RecordSeparator)
        count   == EntryCount(r.ss)
        parsed  == [i \in 1..count |->
                      NewDirEntry(SubSeq(r.ss, (i - 1) * DirEntryLen + 1, i * DirEntryLen))] IN
    IF ~r.found
    THEN [ok |-> FALSE, err |-> "EOF", directory |-> <<>>, pos |-> r.ahead]
    ELSE IF \E i \in 1..count : ~parsed[i].ok
    THEN [ok |-> FALSE, err |-> "MalformedDirectory", directory |-> <<>>, pos |-> r.ahead]
    ELSE [ok |-> TRUE, err |-> "",
          directory |-> [i \in 1..count |-> parsed[i].entry],
          pos |-> CursorAfterDirectory(offset, r.ss, r.ahead)]

\* A buffer one byte longer than the entry declares.
ReadLenPlusOne(entry) == entry.Length + 1

\* buffer := make([]byte, entry.Length)
ReadLen(entry) == entry.Length

\* string(buffer[:n-1])
StripSeparator(buffer, n) == SubSeq(buffer, 1, n - 1)

\* The loop of readValues from entry i on, then the end-of-record byte.
RECURSIVE readValuesFrom(_, _, _, _, _)
readValuesFrom(s, dir, i, p, acc) ==
    IF i > Len(dir)
    THEN LET eor == FileRead(s, p, 1) IN
         IF eor.n # 1
         THEN [ok |-> FALSE, err |-> "End of record byte not found", values |-> acc, pos |-> p + eor.n]
         ELSE [ok |-> TRUE, err |-> "", values |-> acc, pos |-> p + eor.n]
    ELSE LET r == FileRead(s, p, ReadLen(dir[i])) IN
         IF r.n - 1 < 0
         THEN [ok |-> FALSE, err |-> "slice bounds out of range", values |-> acc, pos |-> p + r.n]
         ELSE readValuesFrom(s, dir, i + 1, p + r.n,
                             Append(acc, NewValue(dir[i].Tag, StripSeparator(r.bytes, r.n))))

readValues(s, dir, p) == readValuesFrom(s, dir, 1, p, <<>>)

\* The counter when the increment is left out.
KeepRecords(n) == n

\* file.records += 1
IncRecords(n) == n + 1

\* A loop that returns every error of readRecord, io.EOF included.
LoopAlwaysFails(err) == "error"

\* What ReadAll does with the error of readRecord: io.EOF breaks the loop and
\* ReadAll returns nil, any other error is returned.
LoopOutcome(err) == IF err = "EOF" THEN "nil" ELSE "error"

----------------------------------------------------------------------------
(* The files the reader is run on *)

RECURSIVE Flatten(_)
Flatten(ss) == IF ss = <<>> THEN <<>> ELSE Head(ss) \o Flatten(Tail(ss))

\* n as w decimal digits.
Digits(n, w) == [i \in 1..w |-> 48 + ((n \div Pow10(w - i)) % 10)]

\* The tag of the i-th entry of a directory: "001", then "245", "345", ...
TagOf(i) == IF i = 1 THEN <<48, 48, 49>> ELSE <<48 + i, 52, 53>>

\* A leader: digits where the record length and the base address stand.
LeaderImage(bad) ==
    [i \in 1..LeaderLen |->
        IF bad /\ i = 1 THEN 97
        ELSE IF i \in (1..5) \cup (13..17) THEN 48 ELSE 97]

\* The directory entry of field i, of length len.
EntryImage(i, len, bad) ==
    TagOf(i) \o (IF bad /\ i = 1 THEN <<48, 48, 48, 97>> ELSE Digits(len, 4)) \o Digits(0, 5)

\* The value of field i: len - 1 bytes of data, then the field separator.
FieldImage(i, len) ==
    IF len = 0 THEN <<>>
    ELSE [j \in 1..len |-> IF j = len THEN RecordSeparator ELSE 96 + i]

\* One record whose directory declares the lengths lens, with one defect or none.
RecordImage(lens, defect) ==
    LeaderImage(defect = "badLeader")
    \o Flatten([i \in 1..Len(lens) |-> EntryImage(i, lens[i], defect = "badDigit")])
    \o (IF defect = "junk" THEN <<97>> ELSE <<>>)
    \o <<RecordSeparator>>
    \o Flatten([i \in 1..Len(lens) |-> FieldImage(i, lens[i])])
    \o <<IF defect = "badEor" THEN 97 ELSE EndOfRecord>>

RecLen(lens) == Len(RecordImage(lens, "none"))

\* n records of the same layout, record `at` with the defect, the last `cut`
\* bytes of the file missing.
StreamOf(in) ==
    LET whole == Flatten([r \in 1..in.n |->
                    RecordImage(in.dir, IF r = in.at THEN in.defect ELSE "none")]) IN
    SubSeq(whole, 1, Len(whole) - in.cut)

Dirs == UNION {[1..k -> 0..MaxFieldLen] : k \in 0..MaxEntries}

Defects == {"badLeader", "junk", "badDigit", "badEor"}

Inputs ==
    {[n |-> 0, dir |-> <<>>, defect |-> "none", at |-> 0, cut |-> 0]}
    \cup {[n |-> n, dir |-> d, defect |-> "none", at |-> 0, cut |-> c] :
            n \in 1..MaxRecords, d \in Dirs, c \in 0..(LeaderLen + MaxEntries * (DirEntryLen + MaxFieldLen) + 1)}
    \cup {[n |-> n, dir |-> d, defect |-> k, at |-> a, cut |-> 0] :
            n \in 1..MaxRecords, d \in Dirs \ {<<>>}, k \in Defects, a \in 1..MaxRecords}

ZeroLeader == [raw |-> <<>>, Length |-> 0, dataOffset |-> 0]

----------------------------------------------------------------------------
(* ReadAll *)

FieldIdle ==
    /\ mfTag = <<>>
    /\ mfData = <<>>
    /\ mfDone = FALSE
    /\ mfOut = [Tag |-> <<>>, Value |-> <<>>, Indicator1 |-> <<>>, Indicator2 |-> <<>>,
                SubFields |-> <<>>, err |-> ""]

Init ==
    /\ input \in Inputs
    /\ input.at <= input.n
    /\ input.cut < RecLen(input.dir)
    /\ stream = StreamOf(input)
    /\ pos = 0
    /\ records = 0
    /\ pc = "start"
    /\ leader = ZeroLeader
    /\ dirOffset = 0
    /\ directory = <<>>
    /\ values = <<>>
    /\ delivered = <<>>
    /\ result = "none"
    /\ failure = ""
    /\ closed = FALSE
    /\ footer = FALSE
    /\ FieldIdle

\* processor.Header()
Header ==
    /\ pc = "start"
    /\ pc' = "leader"
    /\ UNCHANGED <<input, stream, pos, records, leader, dirOffset, directory, values,
                   delivered, result, failure, closed, footer, fieldVars>>

\* readRecord up to file.records += 1: readLeader, and on its error the way
\* ReadAll ends (io.EOF breaks the loop, closes the file and calls Footer).
ReadLeader ==
    /\ pc = "leader"
    /\ LET r == FileRead(stream, pos, LeaderLen)
           l == NewLeader(r.bytes) IN
       /\ pos' = pos + r.n
       /\ IF r.eof
          THEN /\ result' = LoopOutcome("EOF")
               /\ failure' = IF LoopOutcome("EOF") = "nil" THEN "" ELSE "EOF"
               /\ closed' = (LoopOutcome("EOF") = "nil")
               /\ footer' = (LoopOutcome("EOF") = "nil")
               /\ pc' = "done"
               /\ UNCHANGED <<leader, records>>
          ELSE IF ~l.ok
          THEN /\ result' = LoopOutcome("MalformedLeader")
               /\ failure' = "MalformedLeader"
               /\ pc' = "done"
               /\ UNCHANGED <<leader, records, closed, footer>>
          ELSE /\ leader' = l.leader
               /\ records' = IncRecords(records)
               /\ pc' = "directory"
               /\ UNCHANGED <<result, failure, closed, footer>>
    /\ directory' = <<>>
    /\ values' = <<>>
    /\ UNCHANGED <<input, stream, dirOffset, delivered, fieldVars>>

\* directory, err := file.readDirectory(); if err != nil { panic(err) }
ReadDirectory ==
    /\ pc = "directory"
    /\ LET d == readDirectory(stream, pos) IN
       /\ dirOffset' = pos
       /\ pos' = d.pos
       /\ IF d.ok
          THEN /\ directory' = d.directory
               /\ pc' = "values"
               /\ UNCHANGED <<result, failure>>
          ELSE /\ result' = "panic"
               /\ failure' = d.err
               /\ pc' = "done"
               /\ UNCHANGED directory
    /\ UNCHANGED <<input, stream, records, leader, values, delivered, closed, footer, fieldVars>>

\* values := file.readValues(directory)
ReadValues ==
    /\ pc = "values"
    /\ LET v == readValues(stream, directory, pos) IN
       /\ pos' = v.pos
       /\ IF v.ok
          THEN /\ values' = v.values
               /\ pc' = "process"
               /\ UNCHANGED <<result, failure>>
          ELSE /\ result' = "panic"
               /\ failure' = v.err
               /\ pc' = "done"
               /\ UNCHANGED values
    /\ UNCHANGED <<input, stream, records, leader, dirOffset, directory, delivered,
                   closed, footer, fieldVars>>

\* processor.Process(file, record, file.records), and back to the loop of ReadAll.
Process ==
    /\ pc = "process"
    /\ delivered' = Append(delivered,
            [record  |-> [Leader |-> leader, Directory |-> directory,
                          Values |-> values, Pos |-> records],
             ord     |-> records,
             filePos |-> pos])
    /\ pc' = "leader"
    /\ UNCHANGED <<input, stream, pos, records, leader, dirOffset, directory, values,
                   result, failure, closed, footer, fieldVars>>

Next ==
    \/ Header
    \/ ReadLeader
    \/ ReadDirectory
    \/ ReadValues
    \/ Process

Spec == Init /\ [][Next]_vars

----------------------------------------------------------------------------
(* MakeField *)

\* bytes.Split(s, sep) for a separator of one byte: the pieces between the
\* separators, in order; one empty piece for an empty s.
RECURSIVE SplitFrom(_, _, _, _)
SplitFrom(s, sep, cur, acc) ==
    IF s = <<>> THEN Append(acc, cur)
    ELSE IF Head(s) = sep THEN SplitFrom(Tail(s), sep, <<>>, Append(acc, cur))
    ELSE SplitFrom(Tail(s), sep, Append(cur, Head(s)), acc)

Split(s, sep) == SplitFrom(s, sep, <<>>, <<>>)

\* strings.HasPrefix(tag, "00")
HasPrefix00(tag) == Len(tag) >= 2 /\ tag[1] = 48 /\ tag[2] = 48

\* An append that keeps only the first subfield of each code.
AppendUnlessCodeSeen(subs, sf) ==
    IF \E i \in 1..Len(subs) : subs[i].Code = <<sf[1]>>
    THEN subs
    ELSE Append(subs, [Code |-> <<sf[1]>>, Value |-> Tail(sf)])

\* f.SubFields = append(f.SubFields, SubField{string(sf[0]), string(sf[1:])})
AppendSubField(subs, sf) == Append(subs, [Code |-> <<sf[1]>>, Value |-> Tail(sf)])

\* The loop of MakeField over the pieces from piece i on.
RECURSIVE SubFieldsFrom(_, _, _)
SubFieldsFrom(segs, i, subs) ==
    IF i > Len(segs) THEN [subs |-> subs, err |-> ""]
    ELSE IF Len(segs[i]) > 0
    THEN SubFieldsFrom(segs, i + 1, AppendSubField(subs, segs[i]))
    ELSE [subs |-> subs, err |-> "Extraneous field terminator"]

MakeField(tag, data) ==
    LET f == [Tag |-> tag, Value |-> <<>>, Indicator1 |-> <<>>, Indicator2 |-> <<>>,
              SubFields |-> <<>>, err |-> ""] IN
    IF HasPrefix00(tag)
    THEN [f EXCEPT !.Value = data]
    ELSE IF ~(Len(data) > 2)
    THEN [f EXCEPT !.err = "Invalid Indicators detected"]
    ELSE LET r == SubFieldsFrom(Split(SubSeq(data, 4, Len(data)), st), 1, <<>>) IN
         [f EXCEPT !.Indicator1 = <<data[1]>>, !.Indicator2 = <<data[2]>>,
                   !.SubFields = r.subs, !.err = r.err]

FieldTags == {<<48, 48, 49>>, <<50, 52, 53>>}

FieldBytes == {st, 97, 98}

FieldData == UNION {[1..k -> FieldBytes] : k \in 0..MaxDataLen}

ReaderIdle ==
    /\ input = [n |-> 0, dir |-> <<>>, defect |-> "none", at |-> 0, cut |-> 0]
    /\ stream = <<>>
    /\ pos = 0
    /\ records = 0
    /\ pc = "idle"
    /\ leader = ZeroLeader
    /\ dirOffset = 0
    /\ directory = <<>>
    /\ values = <<>>
    /\ delivered = <<>>
    /\ result = "none"
    /\ failure = ""
    /\ closed = FALSE
    /\ footer = FALSE

FieldInit ==
    /\ ReaderIdle
    /\ mfTag \in FieldTags
    /\ mfData \in FieldData
    /\ mfDone = FALSE
    /\ mfOut = [Tag |-> <<>>, Value |-> <<>>, Indicator1 |-> <<>>, Indicator2 |-> <<>>,
                SubFields |-> <<>>, err |-> ""]

\* f, err := MakeField(tag, data)
CallMakeField ==
    /\ ~mfDone
    /\ mfOut' = MakeField(mfTag, mfData)
    /\ mfDone' = TRUE
    /\ UNCHANGED <<mfTag, mfData, readerVars>>

FieldNext == CallMakeField

FieldSpec == FieldInit /\ [][FieldNext]_vars

----------------------------------------------------------------------------
(* Properties *)

\* The file of the run lacks something: a defect, missing bytes at its end,
\* or a directory entry of length 0.
InputMalformed ==
    \/ input.defect # "none"
    \/ input.cut > 0
    \/ (input.n > 0 /\ \E i \in 1..Len(input.dir) : input.dir[i] = 0)

\* C1: on an empty file ReadAll ends with no error (after closing the file
\* and calling Footer), Process is never called and nothing panics.
C1_EmptyStreamCleanEnd ==
    stream = <<>> /\ pc # "idle" =>
        /\ delivered = <<>>
        /\ result \in {"none", "nil"}
        /\ (pc = "done" => result = "nil" /\ failure = "" /\ closed /\ footer /\ records = 0)

C1_Witness ==
    stream = <<>> /\ pc = "done" /\ result = "nil" /\ delivered = <<>>

\* C2: no decode failure ever aborts the process, and on every malformed file
\* ReadAll ends by returning an error.
C2_FailuresReturnedNeverAbort ==
    /\ result # "panic"
    /\ (pc = "done" /\ InputMalformed => result = "error")

\* C3: ReadAll ends cleanly only when the file ends at a record boundary; a
\* file that ends inside a record ends with a returned error and without the
\* partial record delivered.
C3_CleanEndOnlyAtBoundary ==
    pc = "done" =>
        /\ (result = "nil" => input.cut = 0)
        /\ (input.cut > 0 => result = "error" /\ Len(delivered) < input.n)

\* C4: a record is delivered only when the byte read after its last field is
\* the end-of-record marker.
C4_TerminatorVerified ==
    \A k \in 1..Len(delivered) : stream[delivered[k].filePos] = EndOfRecord

\* C5: the k-th record delivered carries Pos = k and is passed to Process with
\* ordinal k, and between records the counter equals the number delivered.
C5_ConsecutiveNumbers ==
    /\ \A k \in 1..Len(delivered) :
          delivered[k].record.Pos = k /\ delivered[k].ord = k
    /\ (pc = "leader" => records = Len(delivered))

C5_Witness ==
    Len(delivered) >= 2

\* C6: a delivered record has one field per directory entry, field i has the
\* tag of entry i and holds the bytes of the file that the lengths of the
\* directory assign to entry i, the fields lying end to end between the
\* terminator of the directory and the end-of-record byte.
C6_FieldsAligned ==
    \A k \in 1..Len(delivered) :
        LET rec  == delivered[k].record
            lens == [i \in 1..Len(rec.Directory) |-> rec.Directory[i].Length]
            base == delivered[k].filePos - 1 - Sum(lens) IN
        /\ Len(rec.Values) = Len(rec.Directory)
        /\ base >= 1
        /\ stream[base] = RecordSeparator
        /\ \A i \in 1..Len(lens) :
              /\ rec.Values[i].Tag = rec.Directory[i].Tag
              /\ rec.Values[i].Raw =
                    SubSeq(stream, base + Sum(SubSeq(lens, 1, i - 1)) + 1,
                                   base + Sum(SubSeq(lens, 1, i)) - 1)

C6_Witness ==
    \E k \in 1..Len(delivered) :
        LET dir == delivered[k].record.Directory IN
        /\ Len(dir) >= 2
        /\ dir[1].Length # dir[2].Length
        /\ delivered[k].record.Values[2].Raw # <<>>

\* C7: when readDirectory has returned a directory, the cursor stands just
\* after the first 0x1E that follows the place where readDirectory started.
C7_CursorAfterTerminator ==
    pc = "values" =>
        /\ pos > dirOffset
        /\ pos <= Len(stream)
        /\ stream[pos] = RecordSeparator
        /\ \A j \in (dirOffset + 1)..(pos - 1) : stream[j] # RecordSeparator

C7_Witness ==
    pc = "values" /\ Len(directory) >= 1 /\ pos < Len(stream)

\* C8: readDirectory returns a directory only for a span whose length is a
\* multiple of 12.
C8_SpanMultipleOfTwelve ==
    pc = "values" => (pos - dirOffset - 1) % DirEntryLen = 0

\* C9: a record whose directory has an entry of length 0 ends the run with
\* the error TruncatedField.
C9_ZeroLengthIsTruncatedField ==
    (pc = "done" /\ \E i \in 1..Len(directory) : directory[i].Length = 0) =>
        result = "error" /\ failure = "TruncatedField"

\* The bytes of a data field after its indicators and first delimiter.
Rest(data) == SubSeq(data, 4, Len(data))

NoEmptySegment(rest) ==
    /\ rest # <<>>
    /\ rest[1] # st
    /\ rest[Len(rest)] # st
    /\ \A i \in 1..(Len(rest) - 1) : ~(rest[i] = st /\ rest[i + 1] = st)

RECURSIVE Join(_)
Join(subs) ==
    IF subs = <<>> THEN <<>>
    ELSE IF Len(subs) = 1 THEN subs[1].Code \o subs[1].Value
    ELSE subs[1].Code \o subs[1].Value \o <<st>> \o Join(Tail(subs))

DataFieldCase ==
    /\ mfDone
    /\ ~HasPrefix00(mfTag)
    /\ Len(mfData) > 3
    /\ mfData[3] = st
    /\ NoEmptySegment(Rest(mfData))

\* C10: for a data field whose bytes after the indicators and the first 0x1F
\* split into non-empty segments, MakeField returns no error and one subfield
\* per segment, in order: the subfields, written code then value and joined by
\* 0x1F, give back those bytes, and none holds a 0x1F.
C10_SubFieldsInSplitOrder ==
    DataFieldCase =>
        LET subs == mfOut.SubFields
            rest == Rest(mfData) IN
        /\ mfOut.err = ""
        /\ Len(subs) = Cardinality({i \in 1..Len(rest) : rest[i] = st}) + 1
        /\ Join(subs) = rest
        /\ \A i \in 1..Len(subs) :
              /\ Len(subs[i].Code) = 1
              /\ subs[i].Code[1] # st
              /\ \A j \in 1..Len(subs[i].Value) : subs[i].Value[j] # st

C10_Witness ==
    /\ DataFieldCase
    /\ Len(mfOut.SubFields) >= 2
    /\ mfOut.SubFields[1].Code = mfOut.SubFields[2].Code
    /\ mfOut.SubFields[1].Value # mfOut.SubFields[2].Value

====
